---- MODULE Spec2Model ----
(***************************************************************************)
(* Model of VoxelBlockyModel (meshers/blocky/voxel_blocky_model.cpp): the  *)
(* model definition with its setters, and bake() with the cube baker and   *)
(* the custom-mesh baker writing a BakedData record.                       *)
(*                                                                         *)
(* Lengths are in 1/10000 of a voxel (UNIT is 1.0, TOLERANCE is 0.001).    *)
(* Source vertex indices are 0-based as in the code; TLA+ sequences are    *)
(* 1-based, so array[i] of the code is written At(array, i).               *)
(***************************************************************************)
EXTENDS Integers, Sequences, FiniteSets, TLC

\* ------------------------------------------------------------ bounds
\* Largest number of whole triangles in a source mesh.
MaxTris == 2

\* Largest number of operations in a sequence of setter calls and bakes.
MaxOps == 4

\* ------------------------------------------------------------ constants
MAX_VOXEL_TYPES == 65536
MAX_MATERIALS == 65536
SIDE_COUNT == 6

SIDE_NEGATIVE_X == 0
SIDE_POSITIVE_X == 1
SIDE_NEGATIVE_Y == 2
SIDE_POSITIVE_Y == 3
SIDE_NEGATIVE_Z == 4
SIDE_POSITIVE_Z == 5

Sides == 0 .. (SIDE_COUNT - 1)

GEOMETRY_NONE == "GEOMETRY_NONE"
GEOMETRY_CUBE == "GEOMETRY_CUBE"
GEOMETRY_CUSTOM_MESH == "GEOMETRY_CUSTOM_MESH"
GeometryTypes == {GEOMETRY_NONE, GEOMETRY_CUBE, GEOMETRY_CUSTOM_MESH}

UNIT == 10000
TOLERANCE == 10

\* ------------------------------------------------------------ helpers
At(array, i) == array[i + 1]

Abs(x) == IF x < 0 THEN -x ELSE x

RECURSIVE Pow2(_)
Pow2(n) == IF n = 0 THEN 1 ELSE 2 * Pow2(n - 1)

\* a & b on 8-bit masks
RECURSIVE BitAnd(_, _)
BitAnd(a, b) ==
    IF a = 0 \/ b = 0 THEN 0
    ELSE (IF a % 2 = 1 /\ b % 2 = 1 THEN 1 ELSE 0) + 2 * BitAnd(a \div 2, b \div 2)

\* a | b on 8-bit masks
RECURSIVE BitOr(_, _)
BitOr(a, b) ==
    IF a = 0 THEN b
    ELSE IF b = 0 THEN a
    ELSE (IF a % 2 = 1 \/ b % 2 = 1 THEN 1 ELSE 0) + 2 * BitOr(a \div 2, b \div 2)

Bool2Int(b) == IF b THEN 1 ELSE 0

RECURSIVE Flatten(_)
Flatten(seqs) == IF seqs = <<>> THEN <<>> ELSE Head(seqs) \o Flatten(Tail(seqs))

RECURSIVE SeqsUpTo(_, _)
SeqsUpTo(S, n) ==
    IF n = 0 THEN {<<>>}
    ELSE LET shorter == SeqsUpTo(S, n - 1)
         IN shorter \cup {Append(s, x) : s \in {t \in shorter : Len(t) = n - 1}, x \in S}

Range(s) == {s[k] : k \in DOMAIN s}

\* ------------------------------------------------------------ source meshes
\* The vertices a source mesh is made of (Mesh::ARRAY_VERTEX).
VertexPool ==
    << <<0, 0, 0>>,                   \* 0: corner -X -Y -Z
       <<0, UNIT, 0>>,                \* 1: corner -X +Y -Z
       <<0, 0, UNIT>>,                \* 2: corner -X -Y +Z
       <<0, UNIT, UNIT>>,             \* 3: corner -X +Y +Z
       <<5, 5000, 5000>>,             \* 4: within the tolerance of x = 0
       <<10, 5000, 5000>>,            \* 5: at the tolerance of x = 0: on no face
       <<5000, 0, 5000>> >>           \* 6: on y = 0 only

\* The triangles a source mesh is made of, as triples of source vertex indices.
TriPool ==
    { <<0, 1, 2>>,      \* flush on -X
      <<2, 1, 4>>,      \* flush on -X within the tolerance, shares the edge 1-2 with the first
      <<0, 2, 6>>,      \* flush on -Y, shares the edge 0-2 with the first
      <<0, 0, 2>>,      \* on the edge of -X and -Y, a vertex used twice
      <<1, 5, 3>> }     \* one vertex on no face

\* A mesh resource: what Mesh::surface_get_arrays(0) returns.
\*   valid     FALSE: the null reference (Ref<Mesh>::is_null)
\*   surface   FALSE: the mesh has no surface, the arrays are empty
\*   tris      the whole triangles of ARRAY_INDEX
\*   extra     the number of indices after the last whole triangle
\*   positions, normals, uvs, tangents: whether each array is filled
\*   count     the number of vertices the filled arrays hold
\* A mesh with every array filled and no triangle.
BaseMesh ==
    [valid |-> TRUE, surface |-> TRUE, tris |-> <<>>, extra |-> 0, positions |-> TRUE,
     normals |-> TRUE, uvs |-> TRUE, tangents |-> TRUE, count |-> Len(VertexPool)]

\* The meshes bake_mesh_geometry goes through to its end.
WellFormedMeshes ==
    {[BaseMesh EXCEPT !.tris = t, !.uvs = u, !.tangents = g] :
        t \in SeqsUpTo(TriPool, MaxTris), u \in BOOLEAN, g \in BOOLEAN}

\* The meshes bake_mesh_geometry gives up on: no surface, an index count that
\* is no multiple of 3, no normals (with positions, and with none at all).
RejectedMeshes ==
    {[BaseMesh EXCEPT !.surface = FALSE, !.positions = FALSE, !.normals = FALSE,
                      !.uvs = FALSE, !.tangents = FALSE],
     [BaseMesh EXCEPT !.extra = 1],
     [BaseMesh EXCEPT !.tris = << <<0, 1, 2>> >>, !.extra = 1],
     [BaseMesh EXCEPT !.normals = FALSE, !.tangents = FALSE],
     [BaseMesh EXCEPT !.tris = << <<0, 1, 2>> >>, !.normals = FALSE, !.tangents = FALSE],
     [BaseMesh EXCEPT !.positions = FALSE, !.normals = FALSE, !.uvs = FALSE,
                      !.tangents = FALSE]}

\* Meshes of 2 vertices and 3 triangles: the last triangle is the first to
\* use vertex 1.
TightMeshes ==
    {[BaseMesh EXCEPT !.count = 2, !.tris = << <<0, 0, 0>>, <<0, 0, 0>>, <<1, 1, 1>> >>,
                      !.tangents = g] : g \in BOOLEAN}

\* A mesh of 2 vertices with an index that names a third.
MalformedMeshes == {[BaseMesh EXCEPT !.count = 2, !.tris = << <<0, 1, 2>> >>]}

Meshes == WellFormedMeshes \cup RejectedMeshes \cup TightMeshes \cup MalformedMeshes

NullMesh ==
    [valid |-> FALSE, surface |-> FALSE, tris |-> <<>>, extra |-> 0, positions |-> FALSE,
     normals |-> FALSE, uvs |-> FALSE, tangents |-> FALSE, count |-> 0]

MeshIndices(m) == Flatten(m.tris) \o (IF m.extra = 1 THEN <<0>> ELSE <<>>)
MeshPositions(m) == IF m.positions THEN SubSeq(VertexPool, 1, m.count) ELSE <<>>
MeshNormals(m) == IF m.normals THEN [v \in 1 .. m.count |-> <<0, 0, v>>] ELSE <<>>
MeshUvs(m) == IF m.uvs THEN [v \in 1 .. m.count |-> <<v, v + 1>>] ELSE <<>>
MeshTangents(m) == IF m.tangents THEN [k \in 1 .. 4 * m.count |-> 100 + (k - 1)] ELSE <<>>

\* ------------------------------------------------------------ baked record
\* VoxelBlockyModel::BakedData::Model with every buffer empty.
EmptyModel ==
    [positions |-> <<>>, normals |-> <<>>, uvs |-> <<>>, indices |-> <<>>, tangents |-> <<>>,
     side_positions |-> [s \in Sides |-> <<>>],
     side_uvs |-> [s \in Sides |-> <<>>],
     side_indices |-> [s \in Sides |-> <<>>],
     side_tangents |-> [s \in Sides |-> <<>>]]

\* A BakedData record as its constructor leaves it.
FreshBakedData ==
    [model |-> EmptyModel, color |-> "white", transparency_index |-> 0, material_id |-> 0,
     empty |-> TRUE]

\* BakedData::clear(): drops the geometry of a previous bake.
clear(bd) == [bd EXCEPT !.model = EmptyModel, !.empty = TRUE]

\* ------------------------------------------------------------ cube tables
\* Cube::g_corner_position[Cube::g_side_corners[side][i]]: corner i of a face.
CubeCornerOffsets == << <<0, 0>>, <<UNIT, 0>>, <<UNIT, UNIT>>, <<0, UNIT>> >>

g_side_corner_position(side, i) ==
    LET axis == side \div 2
        v == IF side % 2 = 1 THEN UNIT ELSE 0
        o == At(CubeCornerOffsets, i)
    IN CASE axis = 0 -> <<v, o[1], o[2]>>
         [] axis = 1 -> <<o[1], v, o[2]>>
         [] OTHER -> <<o[1], o[2], v>>

\* Cube::g_side_quad_triangles[side]: the two triangles of a face.
g_side_quad_triangles(side) == <<0, 2, 1, 0, 3, 2>>

\* Cube::g_side_tangents[side]: the 4 floats of the tangent of a face.
g_side_tangents(side) == <<side, 0, 0, 1>>

\* ------------------------------------------------------------ cube baker
\* uv[4], in 1/1000 of a tile (e is 0.001).
CubeUvTable == << <<1, 999>>, <<999, 999>>, <<999, 1>>, <<1, 1>> >>

\* (tile + uv[i]) * s with s = 1 / atlas_size, kept as numerators over a
\* common denominator.
CubeUv(tile, i, atlas_size) ==
    <<tile[1] * 1000 + At(CubeUvTable, i)[1], tile[2] * 1000 + At(CubeUvTable, i)[2],
      1000 * atlas_size>>

\* The first loop of bake_cube_geometry: positions and indices of the 6 faces.
CubePositionsAndIndices(model) ==
    [model EXCEPT
        !.side_positions = [side \in Sides |-> [i \in 1 .. 4 |-> g_side_corner_position(side, i - 1)]],
        !.side_indices = [side \in Sides |-> [i \in 1 .. 6 |-> At(g_side_quad_triangles(side), i - 1)]]]

\* The tangents of one face: g_side_tangents[side] pushed once per vertex.
CubeSideTangents(old, side) ==
    old \o Flatten([i \in 1 .. 4 |-> g_side_tangents(side)])

\* The second loop of bake_cube_geometry: uvs and tangents of the 6 faces.
CubeUvsAndTangents(model, tiles, atlas_size, bake_tangents) ==
    [model EXCEPT
        !.side_uvs = [side \in Sides |-> [i \in 1 .. 4 |-> CubeUv(tiles[side], i - 1, atlas_size)]],
        !.side_tangents = [side \in Sides |->
            IF bake_tangents THEN CubeSideTangents(model.side_tangents[side], side)
            ELSE model.side_tangents[side]]]

\* CRASH_COND(atlas_size <= 0)
CubeAtlasCrash(p_atlas_size) == p_atlas_size <= 0

\* bake_cube_geometry: the record it leaves and whether it crashed on the way.
bake_cube_geometry(tiles, bd, p_atlas_size, bake_tangents) ==
    LET first == [bd EXCEPT !.model = CubePositionsAndIndices(bd.model)]
    IN IF CubeAtlasCrash(p_atlas_size)
       THEN [bd |-> first, crash |-> TRUE, error |-> "crash: atlas_size <= 0"]
       ELSE [bd |-> [first EXCEPT
                        !.model = CubeUvsAndTangents(first.model, tiles, p_atlas_size, bake_tangents),
                        !.empty = FALSE],
             crash |-> FALSE, error |-> ""]

\* ------------------------------------------------------------ mesh baker
\* Math::is_equal_approx(a, b, tolerance)
is_equal_approx(a, b, tolerance) == a = b \/ Abs(a - b) < tolerance

\* L::get_sides: the mask of the faces a position lies on.
get_sides(pos) ==
    LET x0 == Bool2Int(is_equal_approx(pos[1], 0, TOLERANCE)) * Pow2(SIDE_NEGATIVE_X)
        x1 == Bool2Int(is_equal_approx(pos[1], UNIT, TOLERANCE)) * Pow2(SIDE_POSITIVE_X)
        y0 == Bool2Int(is_equal_approx(pos[2], 0, TOLERANCE)) * Pow2(SIDE_NEGATIVE_Y)
        y1 == Bool2Int(is_equal_approx(pos[2], UNIT, TOLERANCE)) * Pow2(SIDE_POSITIVE_Y)
        z0 == Bool2Int(is_equal_approx(pos[3], 0, TOLERANCE)) * Pow2(SIDE_NEGATIVE_Z)
        z1 == Bool2Int(is_equal_approx(pos[3], UNIT, TOLERANCE)) * Pow2(SIDE_POSITIVE_Z)
    IN BitOr(BitOr(BitOr(x0, x1), BitOr(y0, y1)), BitOr(z0, z1))

\* The mask get_triangle_side tests: the faces all three corners lie on.
TriangleMask(a, b, c) == BitAnd(BitAnd(get_sides(a), get_sides(b)), get_sides(c))

\* Mutant: the test passes when the bit of the side is set among others.
MaskIsSide_BitSet(m, side) == BitAnd(m, Pow2(side)) # 0

\* The test of the loop of get_triangle_side.
MaskIsSide(m, side) == m = Pow2(side)

\* The loop of get_triangle_side from `side` on.
RECURSIVE FindSide(_, _)
FindSide(m, side) ==
    IF side >= SIDE_COUNT THEN [found |-> FALSE, side |-> SIDE_COUNT]
    ELSE IF MaskIsSide(m, side) THEN [found |-> TRUE, side |-> side]
    ELSE FindSide(m, side + 1)

\* L::get_triangle_side: whether the triangle is on one face, and which.
get_triangle_side(a, b, c) ==
    LET m == TriangleMask(a, b, c)
    IN IF m = 0 THEN [found |-> FALSE, side |-> SIDE_COUNT] ELSE FindSide(m, 0)

\* Mutant: the lookup never finds the vertex.
getptr_NeverFound(map, key) == FALSE

\* HashMap::getptr(key) != nullptr
getptr(map, key) == key \in DOMAIN map

\* Mutant: the index of the first vertex of the bucket is read instead.
ExistingDstIndex_First(map, src_index) == 0

\* *existing_dst_index
ExistingDstIndex(map, src_index) == map[src_index]

\* Mutant: the index is taken after the increment.
NewDstIndex_OffByOne(next_index) == next_index + 1

\* The index pushed for a vertex that is new in its bucket.
NewDstIndex(next_index) == next_index

\* The tangent computed for triangle i when the mesh has none: 4 floats,
\* kept as opaque values that name the triangle and the component.
ComputedTangent(i) == [c \in 1 .. 4 |-> -(1 + 4 * (i \div 3) + (c - 1))]

\* The first float read from the source tangents for triangle i.
TangentStart(i) == (i \div 3) * 4

\* Mutant: a computed tangent is pushed without its 4th float.
PushedTangent_NoSign(tangents, tangent, tangents_empty, i) ==
    IF tangents_empty THEN SubSeq(tangent, 1, 3)
    ELSE LET ti == TangentStart(i)
         IN <<At(tangents, ti), At(tangents, ti + 1), At(tangents, ti + 2), At(tangents, ti + 3)>>

\* The 4 floats pushed for a new vertex of triangle i.
PushedTangent(tangents, tangent, tangents_empty, i) ==
    IF tangents_empty THEN tangent
    ELSE LET ti == TangentStart(i)
         IN <<At(tangents, ti), At(tangents, ti + 1), At(tangents, ti + 2), At(tangents, ti + 3)>>

\* operator[] of a packed array ends the process on an index outside of it.
InBounds(array, i) == i >= 0 /\ i < Len(array)

\* The reads of one turn of `for i` before its vertices are added: the 3
\* positions, and for a computed tangent the 3 UVs and the first normal.
TriangleReadsInBounds(a, i, bake_tangents) ==
    /\ \A j \in 0 .. 2 : InBounds(a.positions, At(a.indices, i + j))
    /\ (a.tangents_empty /\ bake_tangents) =>
           /\ \A j \in 0 .. 2 : InBounds(a.uvs, At(a.indices, i + j))
           /\ InBounds(a.normals, At(a.indices, i))

\* The 4 reads of the source tangents for a new vertex of triangle i.
TangentReadsInBounds(a, i, bake_tangents) ==
    (bake_tangents /\ ~a.tangents_empty) =>
        \A c \in 0 .. 3 : InBounds(a.tangents, TangentStart(i) + c)

\* The arrays bake_mesh_geometry reads, after the UVs are zero-filled.
MeshArrays(m) ==
    [indices |-> MeshIndices(m), positions |-> MeshPositions(m), normals |-> MeshNormals(m),
     uvs |-> IF Len(MeshUvs(m)) = 0
             THEN [v \in 1 .. Len(MeshPositions(m)) |-> <<0, 0>>]
             ELSE MeshUvs(m),
     tangents |-> MeshTangents(m), tangents_empty |-> Len(MeshTangents(m)) = 0]

\* One turn of `for j` on a face: acc is [model, added, next, crash]. A read
\* outside of an array ends the process with the index and the position of
\* the vertex pushed.
AddSideVertex(acc, a, side, i, j, tangent, bake_tangents) ==
    LET src_index == At(a.indices, i + j)
        model == acc.model
    IN IF acc.crash THEN acc
       ELSE IF ~getptr(acc.added, src_index)
       THEN IF ~(InBounds(a.uvs, src_index) /\ TangentReadsInBounds(a, i, bake_tangents))
            THEN [acc EXCEPT
                     !.model.side_indices[side] = Append(@, NewDstIndex(acc.next)),
                     !.model.side_positions[side] = Append(@, At(a.positions, src_index)),
                     !.crash = TRUE]
            ELSE
            [model |-> [model EXCEPT
                 !.side_indices[side] = Append(@, NewDstIndex(acc.next)),
                 !.side_positions[side] = Append(@, At(a.positions, At(a.indices, i + j))),
                 !.side_uvs[side] = Append(@, At(a.uvs, At(a.indices, i + j))),
                 !.side_tangents[side] =
                     IF bake_tangents
                     THEN @ \o PushedTangent(a.tangents, tangent, a.tangents_empty, i)
                     ELSE @],
             added |-> (src_index :> acc.next) @@ acc.added,
             next |-> acc.next + 1,
             crash |-> FALSE]
       ELSE [acc EXCEPT
                 !.model.side_indices[side] = Append(@, ExistingDstIndex(acc.added, src_index))]

\* One turn of `for j` off the faces: acc is [model, added, next, crash].
AddRegularVertex(acc, a, i, j, tangent, bake_tangents) ==
    LET src_index == At(a.indices, i + j)
        model == acc.model
    IN IF acc.crash THEN acc
       ELSE IF ~getptr(acc.added, src_index)
       THEN IF ~(/\ InBounds(a.normals, src_index)
                 /\ InBounds(a.uvs, src_index)
                 /\ TangentReadsInBounds(a, i, bake_tangents))
            THEN [acc EXCEPT
                     !.model.indices = Append(@, NewDstIndex(acc.next)),
                     !.model.positions = Append(@, At(a.positions, src_index)),
                     !.crash = TRUE]
            ELSE
            [model |-> [model EXCEPT
                 !.indices = Append(@, NewDstIndex(acc.next)),
                 !.positions = Append(@, At(a.positions, At(a.indices, i + j))),
                 !.normals = Append(@, At(a.normals, At(a.indices, i + j))),
                 !.uvs = Append(@, At(a.uvs, At(a.indices, i + j))),
                 !.tangents =
                     IF bake_tangents
                     THEN @ \o PushedTangent(a.tangents, tangent, a.tangents_empty, i)
                     ELSE @],
             added |-> (src_index :> acc.next) @@ acc.added,
             next |-> acc.next + 1,
             crash |-> FALSE]
       ELSE [acc EXCEPT
                 !.model.indices = Append(@, ExistingDstIndex(acc.added, src_index))]

\* One turn of `for i`: st is [model, added_side_indices,
\* added_regular_indices, crash].
BakeTriangle(st, a, i, bake_tangents) ==
    IF st.crash THEN st
    ELSE IF ~TriangleReadsInBounds(a, i, bake_tangents) THEN [st EXCEPT !.crash = TRUE]
    ELSE
    LET p0 == At(a.positions, At(a.indices, i))
        p1 == At(a.positions, At(a.indices, i + 1))
        p2 == At(a.positions, At(a.indices, i + 2))
        tangent == ComputedTangent(i)
        ts == get_triangle_side(p0, p1, p2)
    IN IF ts.found
       THEN LET side == ts.side
                acc0 == [model |-> st.model, added |-> st.added_side_indices[side],
                         next |-> Len(st.model.side_positions[side]), crash |-> FALSE]
                acc1 == AddSideVertex(acc0, a, side, i, 0, tangent, bake_tangents)
                acc2 == AddSideVertex(acc1, a, side, i, 1, tangent, bake_tangents)
                acc3 == AddSideVertex(acc2, a, side, i, 2, tangent, bake_tangents)
            IN [st EXCEPT !.model = acc3.model,
                          !.added_side_indices[side] = acc3.added,
                          !.crash = acc3.crash]
       ELSE LET acc0 == [model |-> st.model, added |-> st.added_regular_indices,
                         next |-> Len(st.model.positions), crash |-> FALSE]
                acc1 == AddRegularVertex(acc0, a, i, 0, tangent, bake_tangents)
                acc2 == AddRegularVertex(acc1, a, i, 1, tangent, bake_tangents)
                acc3 == AddRegularVertex(acc2, a, i, 2, tangent, bake_tangents)
            IN [st EXCEPT !.model = acc3.model,
                          !.added_regular_indices = acc3.added,
                          !.crash = acc3.crash]

\* for (int i = 0; i < indices.size(); i += 3)
RECURSIVE BakeTriangles(_, _, _, _)
BakeTriangles(st, a, i, bake_tangents) ==
    IF i < Len(a.indices)
    THEN BakeTriangles(BakeTriangle(st, a, i, bake_tangents), a, i + 3, bake_tangents)
    ELSE st

\* An empty HashMap<int, int>.
EmptyMap == [k \in {} |-> 0]

\* Mutant: a mesh without triangles counts as empty.
MeshEmpty_NoTriangles(a) == Len(a.positions) = 0 \/ Len(a.indices) = 0

\* baked_data.empty = positions.size() == 0
MeshEmpty(a) == Len(a.positions) = 0

\* bake_mesh_geometry: the record it leaves and the error it printed.
bake_mesh_geometry(mesh, bd, bake_tangents) ==
    IF ~mesh.valid
    THEN [bd |-> [bd EXCEPT !.empty = TRUE], crash |-> FALSE, error |-> ""]
    ELSE IF ~mesh.surface
    THEN [bd |-> bd, crash |-> FALSE, error |-> "arrays.size() == 0"]
    ELSE IF Len(MeshIndices(mesh)) % 3 # 0
    THEN [bd |-> bd, crash |-> FALSE, error |-> "indices.size() % 3 != 0"]
    ELSE LET a == MeshArrays(mesh)
             bd1 == [bd EXCEPT !.empty = MeshEmpty(a)]
         IN IF Len(a.normals) = 0
            THEN [bd |-> bd1, crash |-> FALSE, error |-> "normals.size() == 0"]
            ELSE LET st0 == [model |-> bd1.model,
                             added_side_indices |-> [s \in Sides |-> EmptyMap],
                             added_regular_indices |-> EmptyMap,
                             crash |-> FALSE]
                     st == BakeTriangles(st0, a, 0, bake_tangents)
                 IN [bd |-> [bd1 EXCEPT !.model = st.model], crash |-> st.crash,
                     error |-> IF st.crash THEN "crash: index out of bounds" ELSE ""]

\* ------------------------------------------------------------ state
VARIABLES
    _id, _name, _material_id, _transparency_index, _color, _geometry_type, _cube_tiles,
    _custom_mesh, _collision_aabbs, _random_tickable, _collision_mask, _empty,
    baked_data,     \* the BakedData record the caller hands to bake
    mesh_res,       \* the mesh resource the caller can set as custom mesh
    crashed,        \* the process was ended by a CRASH_COND
    err,            \* the error the last operation printed, "" if none
    last_bake,      \* what the last bake was given, whether its record held geometry
                    \* before, and the error it printed
    ops_left        \* how many more operations the sequence may hold; -1: any number

definition_vars ==
    <<_id, _name, _material_id, _transparency_index, _color, _geometry_type, _cube_tiles,
      _custom_mesh, _collision_aabbs, _random_tickable, _collision_mask, _empty>>

vars == <<definition_vars, baked_data, mesh_res, crashed, err, last_bake, ops_left>>

\* ------------------------------------------------------------ inputs
IdInputs == {-1, 0, 1, MAX_VOXEL_TYPES}
MaterialInputs == {0, 1, MAX_MATERIALS}
TransparencyInputs == {-5, 300}
ColorInputs == {"white", "red"}
NameInputs == {"", "stone"}
TileInputs == {<<0, 0>>, <<1, 0>>}
TileSideInputs == {SIDE_POSITIVE_Y}
MaskInputs == {1, 2}
AtlasInputs == {-1, 0, 2}
BakeAtlasInputs == {0, 2}

UnitBox == [is_aabb |-> TRUE, box |-> "0,0,0 1,1,1"]
HalfBox == [is_aabb |-> TRUE, box |-> "0,0,0 1,0.5,1"]
NotABox == [is_aabb |-> FALSE, box |-> ""]
AabbArrayInputs == {<<>>, <<HalfBox>>, <<HalfBox, NotABox>>}

\* The meshes of the specification of the setters: no position, one triangle
\* on a face, one triangle without normals.
SetterMeshes ==
    {[BaseMesh EXCEPT !.positions = FALSE, !.normals = FALSE, !.uvs = FALSE, !.tangents = FALSE],
     [BaseMesh EXCEPT !.tris = << <<0, 1, 2>> >>],
     [BaseMesh EXCEPT !.tris = << <<0, 1, 2>> >>, !.normals = FALSE, !.tangents = FALSE]}

\* ------------------------------------------------------------ initial state
\* VoxelBlockyModel::VoxelBlockyModel()
InitDefinition ==
    /\ _id = -1
    /\ _name = ""
    /\ _material_id = 0
    /\ _transparency_index = 0
    /\ _color = "white"
    /\ _geometry_type = GEOMETRY_NONE
    /\ _cube_tiles = [s \in Sides |-> <<0, 0>>]
    /\ _custom_mesh = NullMesh
    /\ _collision_aabbs = <<>>
    /\ _random_tickable = FALSE
    /\ _collision_mask = 1
    /\ _empty = TRUE

InitRest ==
    /\ baked_data = FreshBakedData
    /\ crashed = FALSE
    /\ err = ""
    /\ last_bake = [kind |-> "none yet", mesh |-> NullMesh, tangents |-> FALSE,
                    reused |-> FALSE, error |-> ""]

Init == InitDefinition /\ InitRest /\ mesh_res \in SetterMeshes /\ ops_left = MaxOps

\* A definition that was given its custom mesh, or none.
InitBake ==
    /\ InitRest
    /\ ops_left = -1
    /\ mesh_res \in Meshes \cup {NullMesh}
    /\ _id = -1
    /\ _name = ""
    /\ _material_id = 0
    /\ _transparency_index = 0
    /\ _color = "white"
    /\ _geometry_type = GEOMETRY_NONE
    /\ _cube_tiles = [s \in Sides |-> <<0, 0>>]
    /\ _custom_mesh = mesh_res
    /\ _collision_aabbs = <<>>
    /\ _random_tickable = FALSE
    /\ _collision_mask = 1
    /\ _empty = TRUE

\* ------------------------------------------------------------ setters
\* One more operation of the sequence.
Tick == ops_left # 0 /\ ops_left' = (IF ops_left > 0 THEN ops_left - 1 ELSE ops_left)

\* What every operation but bake leaves alone.
Setter == ~crashed /\ Tick /\ UNCHANGED <<baked_data, mesh_res, crashed, last_bake>>

set_voxel_name(name) ==
    /\ Setter
    /\ _name' = name
    /\ err' = ""
    /\ UNCHANGED <<_id, _material_id, _transparency_index, _color, _geometry_type, _cube_tiles,
                   _custom_mesh, _collision_aabbs, _random_tickable, _collision_mask, _empty>>

\* ERR_FAIL_COND(id < 0 || (unsigned int)id >= VoxelBlockyLibrary::MAX_VOXEL_TYPES)
IdRangeError(id) == id < 0 \/ id >= MAX_VOXEL_TYPES

\* Mutant: the test of a former assignment is missing.
IdAssigned_NoTest(current) == FALSE

\* ERR_FAIL_COND_MSG(_id != -1, ...)
IdAssigned(current) == current # -1

set_id(id) ==
    /\ Setter
    /\ IF IdRangeError(id)
       THEN _id' = _id /\ err' = "set_id: id out of range"
       ELSE IF IdAssigned(_id)
       THEN _id' = _id /\ err' = "ID cannot be modified after being added to a library"
       ELSE _id' = id /\ err' = ""
    /\ UNCHANGED <<_name, _material_id, _transparency_index, _color, _geometry_type, _cube_tiles,
                   _custom_mesh, _collision_aabbs, _random_tickable, _collision_mask, _empty>>

set_color(color) ==
    /\ Setter
    /\ _color' = color
    /\ err' = ""
    /\ UNCHANGED <<_id, _name, _material_id, _transparency_index, _geometry_type, _cube_tiles,
                   _custom_mesh, _collision_aabbs, _random_tickable, _collision_mask, _empty>>

set_material_id(id) ==
    /\ Setter
    /\ IF id >= MAX_MATERIALS
       THEN _material_id' = _material_id /\ err' = "set_material_id: id >= MAX_MATERIALS"
       ELSE _material_id' = id /\ err' = ""
    /\ UNCHANGED <<_id, _name, _transparency_index, _color, _geometry_type, _cube_tiles,
                   _custom_mesh, _collision_aabbs, _random_tickable, _collision_mask, _empty>>

set_transparent(t) ==
    /\ Setter
    /\ _transparency_index' =
          IF t THEN (IF _transparency_index = 0 THEN 1 ELSE _transparency_index) ELSE 0
    /\ err' = ""
    /\ UNCHANGED <<_id, _name, _material_id, _color, _geometry_type, _cube_tiles,
                   _custom_mesh, _collision_aabbs, _random_tickable, _collision_mask, _empty>>

\* math::clamp(i, 0, 255)
clamp(x, min, max) == IF x < min THEN min ELSE IF x > max THEN max ELSE x

set_transparency_index(i) ==
    /\ Setter
    /\ _transparency_index' = clamp(i, 0, 255)
    /\ err' = ""
    /\ UNCHANGED <<_id, _name, _material_id, _color, _geometry_type, _cube_tiles,
                   _custom_mesh, _collision_aabbs, _random_tickable, _collision_mask, _empty>>

\* Mutant: every geometry type but GEOMETRY_NONE clears the flag.
EmptyAfterGeometryType_AnyShape(type, empty) == IF type = GEOMETRY_NONE THEN empty ELSE FALSE

\* The value set_geometry_type leaves in _empty.
EmptyAfterGeometryType(type, empty) == IF type = GEOMETRY_CUBE THEN FALSE ELSE empty

set_geometry_type(type) ==
    /\ Setter
    /\ err' = ""
    /\ IF type = _geometry_type
       THEN UNCHANGED <<_geometry_type, _collision_aabbs, _empty>>
       ELSE /\ _geometry_type' = type
            /\ _collision_aabbs' =
                  CASE type = GEOMETRY_NONE -> <<>>
                    [] type = GEOMETRY_CUBE -> <<UnitBox>>
                    [] OTHER -> _collision_aabbs
            /\ _empty' = EmptyAfterGeometryType(type, _empty)
    /\ UNCHANGED <<_id, _name, _material_id, _transparency_index, _color, _cube_tiles,
                   _custom_mesh, _random_tickable, _collision_mask>>

set_custom_mesh(mesh) ==
    /\ Setter
    /\ _custom_mesh' = mesh
    /\ err' = ""
    /\ UNCHANGED <<_id, _name, _material_id, _transparency_index, _color, _geometry_type,
                   _cube_tiles, _collision_aabbs, _random_tickable, _collision_mask, _empty>>

set_random_tickable(rt) ==
    /\ Setter
    /\ _random_tickable' = rt
    /\ err' = ""
    /\ UNCHANGED <<_id, _name, _material_id, _transparency_index, _color, _geometry_type,
                   _cube_tiles, _custom_mesh, _collision_aabbs, _collision_mask, _empty>>

set_cube_uv_side(side, tile_pos) ==
    /\ Setter
    /\ _cube_tiles' = [_cube_tiles EXCEPT ![side] = tile_pos]
    /\ err' = ""
    /\ UNCHANGED <<_id, _name, _material_id, _transparency_index, _color, _geometry_type,
                   _custom_mesh, _collision_aabbs, _random_tickable, _collision_mask, _empty>>

set_collision_mask(mask) ==
    /\ Setter
    /\ _collision_mask' = mask
    /\ err' = ""
    /\ UNCHANGED <<_id, _name, _material_id, _transparency_index, _color, _geometry_type,
                   _cube_tiles, _custom_mesh, _collision_aabbs, _random_tickable, _empty>>

_b_set_collision_aabbs(array) ==
    /\ Setter
    /\ IF \E i \in DOMAIN array : ~array[i].is_aabb
       THEN _collision_aabbs' = _collision_aabbs /\ err' = "set_collision_aabbs: not an AABB"
       ELSE _collision_aabbs' = array /\ err' = ""
    /\ UNCHANGED <<_id, _name, _material_id, _transparency_index, _color, _geometry_type,
                   _cube_tiles, _custom_mesh, _random_tickable, _collision_mask, _empty>>

\* ------------------------------------------------------------ bake
\* The head of bake: the record cleared, the scalar fields copied.
BakeHead(bd, transparency_index, material_id, color) ==
    [clear(bd) EXCEPT !.transparency_index = transparency_index,
                      !.material_id = material_id,
                      !.color = color]

\* case GEOMETRY_NONE
BakeNone(bd) == [bd |-> [bd EXCEPT !.empty = TRUE], crash |-> FALSE, error |-> ""]

\* case GEOMETRY_CUBE
BakeCube(tiles, bd, p_atlas_size, bake_tangents) ==
    bake_cube_geometry(tiles, bd, p_atlas_size, bake_tangents)

\* Mutant: case GEOMETRY_NONE falls through to case GEOMETRY_CUBE.
BakeDispatch_NoneFallsThrough(type, tiles, mesh, bd, p_atlas_size, bake_tangents) ==
    CASE type = GEOMETRY_NONE ->
             BakeCube(tiles, [bd EXCEPT !.empty = TRUE], p_atlas_size, bake_tangents)
      [] type = GEOMETRY_CUBE -> BakeCube(tiles, bd, p_atlas_size, bake_tangents)
      [] OTHER -> bake_mesh_geometry(mesh, bd, bake_tangents)

\* The switch of bake.
BakeDispatch(type, tiles, mesh, bd, p_atlas_size, bake_tangents) ==
    CASE type = GEOMETRY_NONE -> BakeNone(bd)
      [] type = GEOMETRY_CUBE -> BakeCube(tiles, bd, p_atlas_size, bake_tangents)
      [] OTHER -> bake_mesh_geometry(mesh, bd, bake_tangents)

\* Mutant: the flag is set when the record holds no vertex.
EmptyAfterBake_FromVertices(bd) ==
    /\ \A side \in Sides : Len(bd.model.side_positions[side]) = 0
    /\ Len(bd.model.positions) = 0

\* _empty = baked_data.empty
EmptyAfterBake(bd) == bd.empty

bake(p_atlas_size, bake_tangents) ==
    /\ ~crashed
    /\ Tick
    /\ \E r \in {BakeDispatch(_geometry_type, _cube_tiles, _custom_mesh,
                               BakeHead(baked_data, _transparency_index, _material_id, _color),
                               p_atlas_size, bake_tangents)} :
          /\ baked_data' = r.bd
          /\ crashed' = r.crash
          /\ err' = r.error
          /\ _empty' = IF r.crash THEN _empty ELSE EmptyAfterBake(r.bd)
          /\ last_bake' = [kind |-> _geometry_type, mesh |-> _custom_mesh,
                           tangents |-> bake_tangents,
                           reused |-> baked_data.model # EmptyModel,
                           error |-> r.error]
    /\ UNCHANGED <<_id, _name, _material_id, _transparency_index, _color, _geometry_type,
                   _cube_tiles, _custom_mesh, _collision_aabbs, _random_tickable,
                   _collision_mask, mesh_res>>

\* ------------------------------------------------------------ specifications
\* Every operation on one definition, in sequences of at most MaxOps.
Next ==
    \/ \E name \in NameInputs : set_voxel_name(name)
    \/ \E id \in IdInputs : set_id(id)
    \/ \E color \in ColorInputs : set_color(color)
    \/ \E id \in MaterialInputs : set_material_id(id)
    \/ \E t \in BOOLEAN : set_transparent(t)
    \/ \E i \in TransparencyInputs : set_transparency_index(i)
    \/ \E type \in GeometryTypes : set_geometry_type(type)
    \/ \E mesh \in {NullMesh, mesh_res} : set_custom_mesh(mesh)
    \/ \E rt \in BOOLEAN : set_random_tickable(rt)
    \/ \E side \in TileSideInputs, tile_pos \in TileInputs :
          set_cube_uv_side(side, tile_pos)
    \/ \E mask \in MaskInputs : set_collision_mask(mask)
    \/ \E array \in AabbArrayInputs : _b_set_collision_aabbs(array)
    \/ \E p_atlas_size \in AtlasInputs, bake_tangents \in BOOLEAN :
          bake(p_atlas_size, bake_tangents)

Spec == Init /\ [][Next]_vars

\* The bakes of one definition, of every geometry type, over every source mesh.
NextBake ==
    \/ \E type \in GeometryTypes : set_geometry_type(type)
    \/ \E p_atlas_size \in BakeAtlasInputs, bake_tangents \in BOOLEAN :
          bake(p_atlas_size, bake_tangents)

SpecBake == InitBake /\ [][NextBake]_vars

\* ------------------------------------------------------------ reading a record
\* The 6 side buckets and the interior bucket, numbered SIDE_COUNT.
Buckets == 0 .. SIDE_COUNT

BucketPositions(bd, b) ==
    IF b = SIDE_COUNT THEN bd.model.positions ELSE bd.model.side_positions[b]

BucketIndices(bd, b) ==
    IF b = SIDE_COUNT THEN bd.model.indices ELSE bd.model.side_indices[b]

\* The triangles of a bucket, each as the positions of its 3 corners.
BucketTriangles(bd, b) ==
    LET ind == BucketIndices(bd, b)
        pos == BucketPositions(bd, b)
    IN [k \in 1 .. (Len(ind) \div 3) |->
           <<At(pos, ind[3 * k - 2]), At(pos, ind[3 * k - 1]), At(pos, ind[3 * k])>>]

NoGeometry(bd) ==
    \A b \in Buckets : Len(BucketPositions(bd, b)) = 0 /\ Len(BucketIndices(bd, b)) = 0

NoVertices(bd) == \A b \in Buckets : Len(BucketPositions(bd, b)) = 0

\* The last bake was one of a custom mesh that bake_mesh_geometry went through.
BakedWholeMesh ==
    /\ last_bake.kind = GEOMETRY_CUSTOM_MESH
    /\ last_bake.mesh \in WellFormedMeshes

\* The faces a position lies on, within the tolerance.
FacesOf(pos) ==
    {s \in Sides :
        \/ s = SIDE_NEGATIVE_X /\ Abs(pos[1]) < TOLERANCE
        \/ s = SIDE_POSITIVE_X /\ Abs(pos[1] - UNIT) < TOLERANCE
        \/ s = SIDE_NEGATIVE_Y /\ Abs(pos[2]) < TOLERANCE
        \/ s = SIDE_POSITIVE_Y /\ Abs(pos[2] - UNIT) < TOLERANCE
        \/ s = SIDE_NEGATIVE_Z /\ Abs(pos[3]) < TOLERANCE
        \/ s = SIDE_POSITIVE_Z /\ Abs(pos[3] - UNIT) < TOLERANCE}

\* The faces all 3 corners of a source triangle lie on.
CommonFaces(tri) ==
    FacesOf(At(VertexPool, tri[1])) \cap FacesOf(At(VertexPool, tri[2]))
        \cap FacesOf(At(VertexPool, tri[3]))

\* The bucket of a source triangle: the one face its corners share, else the
\* interior bucket.
ExpectedBucket(tri) ==
    IF Cardinality(CommonFaces(tri)) = 1 THEN CHOOSE s \in CommonFaces(tri) : TRUE
    ELSE SIDE_COUNT

\* The source triangles of a mesh that belong to bucket b, in source order.
ExpectedTriangles(mesh, b) ==
    LET InBucket(tri) == ExpectedBucket(tri) = b
    IN SelectSeq(mesh.tris, InBucket)

TrianglePositions(tri) ==
    <<At(VertexPool, tri[1]), At(VertexPool, tri[2]), At(VertexPool, tri[3])>>

\* ------------------------------------------------------------ C1
\* C1: after any bake (any bake that returned: a bake that ended the process
\* leaves no record to read), in each of the 6 side buckets and in the
\* interior bucket the index list has a length divisible by 3 and every index
\* is smaller than the vertex count of the bucket.
C1_IndicesInBucket ==
    ~crashed =>
        \A b \in Buckets :
            /\ Len(BucketIndices(baked_data, b)) % 3 = 0
            /\ \A k \in DOMAIN BucketIndices(baked_data, b) :
                  /\ BucketIndices(baked_data, b)[k] >= 0
                  /\ BucketIndices(baked_data, b)[k] < Len(BucketPositions(baked_data, b))

\* A custom mesh baked into a record that held a cube: two triangles of the
\* -X bucket share two vertices, one triangle is in the interior bucket.
C1_Witness ==
    /\ BakedWholeMesh
    /\ last_bake.reused
    /\ last_bake.mesh.tris = << <<0, 1, 2>>, <<2, 1, 4>> >>
    /\ Len(baked_data.model.side_indices[SIDE_NEGATIVE_X]) = 6
    /\ Len(baked_data.model.side_positions[SIDE_NEGATIVE_X]) = 4

\* ------------------------------------------------------------ C2
\* C2: in a custom-mesh bake every source triangle is emitted into exactly
\* one bucket: side bucket s when s is the one face all 3 corners lie on (the
\* AND of the 3 face masks is the single bit of s), the interior bucket in
\* every other case; each bucket holds exactly its triangles, in source order.
C2_OneBucketPerTriangle ==
    BakedWholeMesh =>
        \A b \in Buckets :
            BucketTriangles(baked_data, b) =
                [k \in 1 .. Len(ExpectedTriangles(last_bake.mesh, b)) |->
                    TrianglePositions(ExpectedTriangles(last_bake.mesh, b)[k])]

\* A triangle on the edge of two faces (a mask of 2 bits) went to the interior
\* bucket, next to a triangle flush on -X.
C2_Witness ==
    /\ BakedWholeMesh
    /\ last_bake.mesh.tris = << <<0, 1, 2>>, <<0, 0, 2>> >>
    /\ Len(baked_data.model.indices) = 3
    /\ Len(baked_data.model.side_indices[SIDE_NEGATIVE_X]) = 3
    /\ Len(baked_data.model.side_indices[SIDE_NEGATIVE_Y]) = 0

\* ------------------------------------------------------------ C3
\* C3: after a custom-mesh bake the vertex count of each bucket is the
\* number of distinct source vertex indices the triangles of that bucket
\* refer to.
C3_WeldedPerBucket ==
    BakedWholeMesh =>
        \A b \in Buckets :
            Len(BucketPositions(baked_data, b)) =
                Cardinality(UNION {Range(tri) : tri \in Range(ExpectedTriangles(last_bake.mesh, b))})

\* Source vertex 1 is used by a flush triangle and by an interior one: one
\* vertex in each of the two buckets.
C3_Witness ==
    /\ BakedWholeMesh
    /\ last_bake.mesh.tris = << <<0, 1, 2>>, <<1, 5, 3>> >>
    /\ Len(baked_data.model.side_positions[SIDE_NEGATIVE_X]) = 3
    /\ Len(baked_data.model.positions) = 3

\* ------------------------------------------------------------ C4
\* C4: when a custom-mesh bake aborts because the index count is no multiple
\* of 3, or because the normals are absent while positions are present, the
\* record is left empty: no vertex and no index in any bucket, is_empty true.
C4_AbortLeavesEmptyRecord ==
    (/\ last_bake.kind = GEOMETRY_CUSTOM_MESH
     /\ \/ last_bake.error = "indices.size() % 3 != 0"
        \/ last_bake.error = "normals.size() == 0" /\ last_bake.mesh.positions)
    => (NoGeometry(baked_data) /\ baked_data.empty)

\* ------------------------------------------------------------ C5
\* C5: baking a cube with an atlas size that is zero or negative fails that
\* bake only: the process that runs the batch is never ended by it.
C5_BatchNeverCrashes == ~crashed

\* ------------------------------------------------------------ C6
\* A bake has run to its end: it neither gave up on an error nor crashed.
BakeCompleted == last_bake.kind # "none yet" /\ ~crashed /\ last_bake.error = ""

\* The last bake read a custom mesh with at least one position.
SourceHasPositions ==
    /\ last_bake.kind = GEOMETRY_CUSTOM_MESH
    /\ last_bake.mesh.valid
    /\ Len(MeshPositions(last_bake.mesh)) > 0

\* C6 as claimed: after any completed bake, a record with no vertex in any of
\* its buckets has is_empty true.
C6_ZeroVerticesIsEmpty ==
    (BakeCompleted /\ NoVertices(baked_data)) => baked_data.empty

\* C6 as amended: after any completed bake, a record with no vertex in any of
\* its buckets has is_empty true, unless the bake read a custom mesh with at
\* least one position: then is_empty is false.
C6_ZeroVerticesIsEmptyUnlessPositions ==
    (BakeCompleted /\ NoVertices(baked_data)) => (baked_data.empty <=> ~SourceHasPositions)

\* A custom mesh with positions and normals and no triangle was baked: no
\* vertex in the record, is_empty false.
C6_Witness ==
    /\ BakeCompleted
    /\ BakedWholeMesh
    /\ last_bake.mesh.tris = <<>>
    /\ NoVertices(baked_data)
    /\ ~baked_data.empty

\* ------------------------------------------------------------ C7
\* C7: baking a definition of geometry type None leaves is_empty true and no
\* vertex in any bucket, whatever the record held before.
C7_NoneIsEmpty ==
    (last_bake.kind = GEOMETRY_NONE) => (baked_data.empty /\ NoVertices(baked_data))

\* A definition of type None with a custom mesh set was baked into a record
\* that held geometry.
C7_Witness ==
    /\ last_bake.kind = GEOMETRY_NONE
    /\ last_bake.reused
    /\ last_bake.mesh.valid
    /\ baked_data.empty
    /\ NoVertices(baked_data)

\* ------------------------------------------------------------ C8
\* C8: the id is assigned at most once: while it is -1 a set_id with a value
\* in [0, MAX_VOXEL_TYPES) assigns it, every other set_id fails and leaves it,
\* and no operation changes an id that is assigned.
C8_IdAssignedOnce ==
    /\ _id = -1
    /\ [][/\ (_id # -1) => (_id' = _id)
          /\ \A id \in IdInputs :
                set_id(id) =>
                    IF _id = -1 /\ id >= 0 /\ id < MAX_VOXEL_TYPES
                    THEN _id' = id /\ err' = ""
                    ELSE _id' = _id /\ err' # ""]_vars

\* The id was assigned, and a later set_id with another valid value failed.
C8_Witness ==
    /\ _id = 0
    /\ err = "ID cannot be modified after being added to a library"

\* ------------------------------------------------------------ C9
\* A step of bake: the step records the geometry type and the mesh of the
\* definition and the error printed, leaves the fields below alone, and is a
\* step of bake for some atlas size and tangent flag.
BakeStep ==
    /\ last_bake'.kind = _geometry_type
    /\ last_bake'.mesh = _custom_mesh
    /\ err' = last_bake'.error
    /\ UNCHANGED <<_id, _name, _material_id, _transparency_index, _color, _geometry_type,
                   _cube_tiles, _custom_mesh, _collision_aabbs, _random_tickable,
                   _collision_mask, mesh_res>>
    /\ \E p_atlas_size \in AtlasInputs, bake_tangents \in BOOLEAN :
          bake(p_atlas_size, bake_tangents)

\* C9 as claimed: bake leaves every field of the definition as it was,
\* is_empty included.
C9_BakeLeavesDefinition == [][BakeStep => UNCHANGED definition_vars]_vars

\* C9 as amended: a bake that returns leaves every field of the definition as
\* it was but is_empty, which it sets to the is_empty flag of the record.
C9_BakeChangesOnlyEmpty ==
    [][BakeStep =>
          /\ UNCHANGED <<_id, _name, _material_id, _transparency_index, _color, _geometry_type,
                         _cube_tiles, _custom_mesh, _collision_aabbs, _random_tickable,
                         _collision_mask>>
          /\ (~crashed') => (_empty' = baked_data'.empty)]_vars

\* A definition with a colour and a custom mesh set was baked: the record is
\* not empty and the flag of the definition followed it.
C9_Witness ==
    /\ last_bake.kind = GEOMETRY_CUSTOM_MESH
    /\ _geometry_type = GEOMETRY_CUSTOM_MESH
    /\ _color = "red"
    /\ baked_data.color = "red"
    /\ ~baked_data.empty
    /\ ~_empty

\* ------------------------------------------------------------ C10
\* C10 as claimed: is_empty goes from true to false only in a bake that
\* completes with a record that is not empty; no setter makes it false.
C10_EmptyUntilBake ==
    [][(_empty /\ ~_empty') => (BakeStep /\ ~crashed' /\ ~baked_data'.empty)]_vars

\* C10 as amended: is_empty goes from true to false only in a bake that
\* completes with a record that is not empty, or in a set_geometry_type that
\* changes the geometry type to Cube; no other setter makes it false.
C10_EmptyUntilBakeOrCube ==
    [][(_empty /\ ~_empty') =>
          \/ _geometry_type # GEOMETRY_CUBE /\ _geometry_type' = GEOMETRY_CUBE
          \/ BakeStep /\ ~crashed' /\ ~baked_data'.empty]_vars

\* The type was set to Cube and nothing was baked: is_empty is false.
C10_Witness ==
    /\ _geometry_type = GEOMETRY_CUBE
    /\ last_bake.kind = "none yet"
    /\ ~_empty

\* ------------------------------------------------------------ C11
BucketUvs(bd, b) ==
    IF b = SIDE_COUNT THEN bd.model.uvs ELSE bd.model.side_uvs[b]

BucketTangents(bd, b) ==
    IF b = SIDE_COUNT THEN bd.model.tangents ELSE bd.model.side_tangents[b]

\* A bake has returned, with or without an error.
BakeReturned == last_bake.kind # "none yet" /\ ~crashed

\* C11: after any bake the attribute streams of every bucket match its
\* vertices: one UV per vertex in every bucket, one normal per vertex in the
\* interior bucket, 4 tangent floats per vertex when tangent baking was
\* requested and none when it was not.
C11_StreamsMatchVertices ==
    BakeReturned =>
        /\ \A b \in Buckets :
              /\ Len(BucketUvs(baked_data, b)) = Len(BucketPositions(baked_data, b))
              /\ Len(BucketTangents(baked_data, b)) =
                    (IF last_bake.tangents THEN 4 * Len(BucketPositions(baked_data, b)) ELSE 0)
        /\ Len(baked_data.model.normals) = Len(baked_data.model.positions)

\* A custom mesh without tangents and without UVs was baked with tangents
\* into a record that held geometry: 3 vertices on -X and 3 in the interior
\* bucket, 12 computed tangent floats in each.
C11_Witness ==
    /\ BakedWholeMesh
    /\ last_bake.reused
    /\ last_bake.tangents
    /\ ~last_bake.mesh.tangents
    /\ ~last_bake.mesh.uvs
    /\ last_bake.mesh.tris = << <<0, 1, 2>>, <<1, 5, 3>> >>
    /\ Len(baked_data.model.side_tangents[SIDE_NEGATIVE_X]) = 12
    /\ Len(baked_data.model.tangents) = 12
    /\ Len(baked_data.model.side_uvs[SIDE_NEGATIVE_X]) = 3

\* ------------------------------------------------------------ C12
\* What a corner of a triangle of bucket b carries: position, UV, and the
\* normal in the interior bucket.
BucketCorner(bd, b, index) ==
    [position |-> At(BucketPositions(bd, b), index),
     uv |-> At(BucketUvs(bd, b), index),
     normal |-> IF b = SIDE_COUNT THEN At(bd.model.normals, index) ELSE <<>>]

\* The triangles of a bucket, each as what its 3 corners carry.
BucketCorners(bd, b) ==
    LET ind == BucketIndices(bd, b)
    IN [k \in 1 .. (Len(ind) \div 3) |->
           [c \in 1 .. 3 |-> BucketCorner(bd, b, ind[3 * (k - 1) + c])]]

\* What source vertex v of a mesh carries; the UV of a mesh without UVs is 0.
SourceCorner(mesh, b, v) ==
    [position |-> At(MeshPositions(mesh), v),
     uv |-> IF mesh.uvs THEN At(MeshUvs(mesh), v) ELSE <<0, 0>>,
     normal |-> IF b = SIDE_COUNT THEN At(MeshNormals(mesh), v) ELSE <<>>]

\* C12: within each bucket the triangles appear in source order, and the
\* k-th corner of each emitted triangle carries the position and the UV (and
\* in the interior bucket the normal) of the source vertex the k-th index of
\* the source triangle names.
C12_TopologyPreserved ==
    BakedWholeMesh =>
        \A b \in Buckets :
            BucketCorners(baked_data, b) =
                [k \in 1 .. Len(ExpectedTriangles(last_bake.mesh, b)) |->
                    [c \in 1 .. 3 |->
                        SourceCorner(last_bake.mesh, b, ExpectedTriangles(last_bake.mesh, b)[k][c])]]

\* Two triangles of -X that share the edge 1-2, with UVs: the second
\* triangle names the welded vertices of the first in its own order.
C12_Witness ==
    /\ BakedWholeMesh
    /\ last_bake.mesh.uvs
    /\ last_bake.mesh.tris = << <<0, 1, 2>>, <<2, 1, 4>> >>
    /\ baked_data.model.side_indices[SIDE_NEGATIVE_X] = <<0, 1, 2, 2, 1, 3>>
    /\ Len(baked_data.model.side_uvs[SIDE_NEGATIVE_X]) = 4

\* ------------------------------------------------------------ C13
\* The distinct elements of a sequence, in the order of their first use.
RECURSIVE FirstUses(_)
FirstUses(seq) ==
    IF seq = <<>> THEN <<>>
    ELSE LET front == FirstUses(SubSeq(seq, 1, Len(seq) - 1))
             last == seq[Len(seq)]
         IN IF last \in Range(front) THEN front ELSE Append(front, last)

\* The source vertex each destination vertex of bucket b was created from.
ExpectedVertices(mesh, b) == FirstUses(Flatten(ExpectedTriangles(mesh, b)))

\* The last bake was asked for tangents and read them from the mesh.
BakedSourceTangents ==
    /\ BakedWholeMesh
    /\ last_bake.tangents
    /\ last_bake.mesh.tangents

\* C13: when the source mesh supplies tangents and tangent baking is
\* requested, every destination vertex created from source vertex v carries
\* the floats 4v .. 4v+3 of the source tangents, in every bucket.
C13_TangentOfOwnVertex ==
    BakedSourceTangents =>
        \A b \in Buckets :
            BucketTangents(baked_data, b) =
                Flatten([d \in 1 .. Len(ExpectedVertices(last_bake.mesh, b)) |->
                    LET v == ExpectedVertices(last_bake.mesh, b)[d]
                    IN [c \in 1 .. 4 |-> At(MeshTangents(last_bake.mesh), 4 * v + (c - 1))]])

\* ------------------------------------------------------------ C14
\* The mesh has an index count that is a multiple of 3, every index smaller
\* than the vertex count, normals and UVs, when present, of one entry per
\* position, and tangents, when present, of 4 floats per position.
WellFormedSource(mesh) ==
    /\ mesh.valid
    /\ mesh.surface
    /\ Len(MeshIndices(mesh)) % 3 = 0
    /\ \A k \in DOMAIN MeshIndices(mesh) :
          MeshIndices(mesh)[k] >= 0 /\ MeshIndices(mesh)[k] < Len(MeshPositions(mesh))
    /\ Len(MeshNormals(mesh)) \in {0, Len(MeshPositions(mesh))}
    /\ Len(MeshUvs(mesh)) \in {0, Len(MeshPositions(mesh))}
    /\ Len(MeshTangents(mesh)) \in {0, 4 * Len(MeshPositions(mesh))}

\* C14: for every well-formed source mesh every read bake_mesh_geometry
\* makes of the position, normal, UV and tangent arrays is inside the array:
\* no bake of such a mesh is ended by a read outside of one.
C14_ReadsInBounds ==
    (last_bake.kind = GEOMETRY_CUSTOM_MESH /\ WellFormedSource(last_bake.mesh))
        => last_bake.error # "crash: index out of bounds"

====
